---- MODULE Spec2Model ----
(***************************************************************************)
(* A model of the acquisition loop of PipelinePlateProgram                 *)
(* (dragonfly_automation/programs/pipeline_plate_program.py) running on     *)
(* the mocked py4j object graph of tests/mocks/mm2python_mocks.py (Spec),  *)
(* of the mocked objects called by themselves (MockSpec, DeviceSpec), of   *)
(* the mocked position list read label by label (ListSpec), of             *)
(* utils.well_id_to_position (UtilsSpec) and of scripts/run_qc.py (QcSpec). *)
(*                                                                         *)
(* Strings are sequences of one-character strings, so that the label       *)
(* formatting ('%s-%s', 'Site_%d'), the substring tests of                  *)
(* _is_first_position_in_new_well and the regular expression of            *)
(* parse_hcs_site_label are computed character by character.               *)
(***************************************************************************)
EXTENDS Integers, Sequences, FiniteSets, TLC

\* ------------------------------------------------------------------ bounds

\* The mocked position lists have 1..MaxNumWells wells ...
MaxNumWells == 3
\* ... of 1..MaxNumSitesPerWell sites each.
MaxNumSitesPerWell == 3
\* Position lists that were not built by the mock have 1..MaxListLen labels.
MaxListLen == 2
\* afc_fail_on_first_n_calls ranges over 0..MaxFailFirstN.
MaxFailFirstN == 1
\* A caller of the mocked interface makes up to MaxMockCalls calls.
MaxMockCalls == 4
\* The lists examined label by label have 1..MaxListedWells wells, or all
\* the wells of the plate, ...
MaxListedWells == 13
\* ... of 1..MaxListedSites sites each.
MaxListedSites == 11

\* ------------------------------------------------------- program constants

\* settings.MAX_NUM_FOV_PER_WELL: the per-well FOV cap read at
\* pipeline_plate_program.py:152.  The settings module under src/ does not
\* define it; the spec calls it the "per-well FOV cap" of the configuration.
MAX_NUM_FOV_PER_WELL == 2

\* relative_top of the z-stack (pipeline_plate_settings.py:25): where the
\* piezo stage is left by a stack acquisition.
RELATIVE_TOP == 16

\* ----------------------------------------------------------------- strings

DigitChars == <<"0", "1", "2", "3", "4", "5", "6", "7", "8", "9">>

RowChars == <<"A", "B", "C", "D", "E", "F", "G", "H">>

IsDigit(c) == \E d \in 1..10 : DigitChars[d] = c

IsRow(c) == \E r \in 1..8 : RowChars[r] = c

DigitValue(c) == (CHOOSE d \in 1..10 : DigitChars[d] = c) - 1

\* '%d' % n for n >= 0
RECURSIVE FormatInt(_)
FormatInt(n) ==
    IF n < 10 THEN <<DigitChars[n + 1]>>
    ELSE FormatInt(n \div 10) \o <<DigitChars[(n % 10) + 1]>>

\* int(s) for a string of decimal digits
RECURSIVE ParseInt(_)
ParseInt(s) ==
    IF Len(s) = 0 THEN 0
    ELSE 10 * ParseInt(SubSeq(s, 1, Len(s) - 1)) + DigitValue(s[Len(s)])

AllDigits(s) == \A i \in 1..Len(s) : IsDigit(s[i])

\* sub in s
Contains(sub, s) ==
    \E i \in 0..(Len(s) - Len(sub)) : SubSeq(s, i + 1, i + Len(sub)) = sub

Str_Site == <<"S", "i", "t", "e", "_">>

Str_Site_0 == <<"S", "i", "t", "e", "_", "0">>

Str_Pos_000_000 == <<"P", "o", "s", "_", "0", "0", "0", "_", "0", "0", "0">>

\* the position plugin's label of a later position, in the 'Pos' form
Str_Pos_000_001 == <<"P", "o", "s", "_", "0", "0", "0", "_", "0", "0", "1">>

Str_DashSite == <<"-", "S", "i", "t", "e", "_">>

\* ------------------------------------------------------------------ utils

\* The lengths k of a well id for which label matches
\* ^([A-H][0-9]{1,2})-Site_([0-9]+)$ with the well id in label[1..k].
HcsMatchLens(label) ==
    { k \in 2..3 :
        /\ Len(label) >= k + Len(Str_DashSite) + 1
        /\ IsRow(label[1])
        /\ AllDigits(SubSeq(label, 2, k))
        /\ SubSeq(label, k + 1, k + Len(Str_DashSite)) = Str_DashSite
        /\ AllDigits(SubSeq(label, k + Len(Str_DashSite) + 1, Len(label))) }

\* re.findall(pattern, label) is not empty
HcsMatches(label) == HcsMatchLens(label) # {}

\* parse_hcs_site_label(label) when the pattern matches: (well_id, site_num)
parse_hcs_site_label(label) ==
    LET k == CHOOSE k \in HcsMatchLens(label) : TRUE
    IN  [well_id  |-> SubSeq(label, 1, k),
         site_num |-> ParseInt(SubSeq(label, k + Len(Str_DashSite) + 1, Len(label)))]

\* well_id_to_position with the column left as it is printed
well_id_to_position_one_based(id) ==
    IF /\ Len(id) \in 2..3
       /\ IsRow(id[1])
       /\ AllDigits(Tail(id))
    THEN [raised |-> "none",
          row_ind |-> (CHOOSE r \in 1..8 : RowChars[r] = id[1]) - 1,
          col_ind |-> ParseInt(Tail(id))]
    ELSE [raised |-> "IndexError", row_ind |-> -1, col_ind |-> -1]

\* well_id_to_position(well_id): the pattern ^([A-H])([0-9]{1,2})$ is
\* matched (result[0] raises IndexError when it is not), the row is looked
\* up in 'ABCDEFGH' and the column is int(col) - 1
well_id_to_position(id) ==
    IF /\ Len(id) \in 2..3
       /\ IsRow(id[1])
       /\ AllDigits(Tail(id))
    THEN [raised |-> "none",
          row_ind |-> (CHOOSE r \in 1..8 : RowChars[r] = id[1]) - 1,
          col_ind |-> ParseInt(Tail(id)) - 1]
    ELSE [raised |-> "IndexError", row_ind |-> -1, col_ind |-> -1]

\* ------------------------------------------------------- the mocked list

\* len(all_well_ids): the plate's 8 rows of 12 columns
NumPlateWells == 96

\* all_well_ids[k + 1]: itertools.product('ABCDEFGH', range(1, 13))
WellIdAt(k) == <<RowChars[(k \div 12) + 1]>> \o FormatInt((k % 12) + 1)

\* the site number printed with two digits, 'Site_%02d'
SiteLabelTwoDigits(well_id, n) ==
    well_id \o <<"-">> \o Str_Site
    \o (IF n < 10 THEN <<"0">> ELSE <<>>) \o FormatInt(n)

\* '%s-%s' % (well_id, 'Site_%d' % n)
SiteLabel(well_id, n) == well_id \o <<"-">> \o Str_Site \o FormatInt(n)

\* PositionList._construct_position_list
construct_position_list(num_wells, num_sites_per_well) ==
    [ i \in 1..(num_wells * num_sites_per_well) |->
        SiteLabel(WellIdAt((i - 1) \div num_sites_per_well),
                  (i - 1) % num_sites_per_well) ]

\* ------------------------------------------------------------------ state

VARIABLES
    \* PipelinePlateProgram.__init__ arguments and attributes
    env,                    \* "prod" or "dev"
    data_dirpath,           \* TRUE when a data directory was given
    datastore,              \* "unset", "None", "open" or "frozen"
    \* keyword arguments of get_mocked_interface and what they configure
    position_list,          \* PositionList._position_list
    afc_always_fail_in_wells,
    afc_fails_on_first_n_calls,
    afc_failure_rate,       \* "zero" or "positive"
    get_tagged_image_error_rate,    \* "zero" or "positive"
    raise_go_to_position_error_once,
    raise_get_tagged_image_error_once,
    once_flags_given,       \* the two flags as get_mocked_interface got them
    list_kwargs,            \* num_wells and num_sites_per_well of the list
                            \* whose labels are examined one by one
    \* state of the mocked objects
    num_full_focus_calls,   \* AutofocusPlugin._num_full_focus_calls
    always_fail,            \* AutofocusPlugin._always_fail
    current_z_position,     \* MMCore._current_z_position
    position_ind,           \* Gate._position_ind
    images,                 \* len(MultipageTIFFDatastore._images)
    \* code of the repository that is not under src/
    autofocus_catches,      \* operations.autofocus returns when fullFocus raises
    confluency_overridden,  \* confluency_test is a subclass's, not line 103
    mocked_gate,            \* get_gate returned the mocks; FALSE: the py4j gate
    \* PipelinePlateProgram.run
    pc,
    error,                  \* the exception that ended run(), or "none"
    range_next,             \* the next value of range(getNumberOfPositions())
    position_index,         \* -1 before the first iteration
    position,               \* label of the Position returned by getPosition
    new_well_flag,
    num_fovs_acquired_in_current_well,     \* -1: the attribute is not set
    calculated,             \* well in which CHANNEL_488['calculated_*'] was
                            \* computed, <<>> while the keys are not set
    \* history of the run, written by the actions and read by the properties
    here,                   \* what was done at the current position
    well_here,              \* well id of the current position
    fovs_reached_in_well,   \* positions of well_here that reached acquire_stack
    autoexposures_in_well,  \* autoexposure calls at positions of well_here
    exposure_used,          \* value of calculated at the last 488 stack
    freeze_calls,
    num_moves,
    num_autoexposures,
    num_stacks,
    \* calls made on the mocked interface by a caller other than run()
    mock_calls,             \* <<method, what it was called on or how it ended>>
    \* a call of utils.well_id_to_position
    arg_well_id,            \* its argument
    returned,               \* (row_ind, col_ind), or the error it raised
    \* a run of scripts/run_qc.py
    args,                   \* the parsed command line's six flags
    qc_calls                \* the calls made on the PipelinePlateQC object

cfgVars == <<env, data_dirpath, position_list, afc_always_fail_in_wells,
             afc_fails_on_first_n_calls, afc_failure_rate,
             get_tagged_image_error_rate, autofocus_catches,
             confluency_overridden, mocked_gate, once_flags_given,
             list_kwargs>>

mockVars == <<raise_go_to_position_error_once, raise_get_tagged_image_error_once,
              num_full_focus_calls, always_fail, current_z_position,
              position_ind, images, datastore>>

runVars == <<pc, error, range_next, position_index, position, new_well_flag,
             num_fovs_acquired_in_current_well, calculated>>

histVars == <<here, well_here, fovs_reached_in_well, autoexposures_in_well,
              exposure_used, freeze_calls, num_moves, num_autoexposures,
              num_stacks>>

testVars == <<mock_calls, arg_well_id, returned, args, qc_calls>>

vars == <<cfgVars, mockVars, runVars, histVars, testVars>>

\* ------------------------------------------------------------------ inputs

\* parse_args: the names of the flags, and their defaults
action_arg_names ==
    {"inspect", "project", "plot", "construct_metadata", "overwrite", "run_all"}

NoFlags == [name \in action_arg_names |-> FALSE]

\* well_id_to_position has not been called
NotCalled == [raised |-> "none", row_ind |-> -1, col_ind |-> -1]

\* the wells of the mocked lists
MockWells == { WellIdAt(k) : k \in 0..(MaxNumWells - 1) }

MockLists ==
    { construct_position_list(w, s) :
        w \in 1..MaxNumWells, s \in 1..MaxNumSitesPerWell }

\* labels of position lists that the mock did not build: a well's first site
\* in both marker forms, later sites in both forms, and a zero-padded site
\* number
OtherLabels ==
    { SiteLabel(WellIdAt(0), 0), SiteLabel(WellIdAt(0), 1),
      SiteLabel(WellIdAt(1), 0), SiteLabel(WellIdAt(1), 1),
      WellIdAt(0) \o <<"-">> \o Str_Site \o <<"0", "1">>,
      WellIdAt(0) \o <<"-">> \o Str_Pos_000_000,
      WellIdAt(0) \o <<"-">> \o Str_Pos_000_001 }

OtherLists == UNION { [1..n -> OtherLabels] : n \in 1..MaxListLen }

\* no list is examined label by label
NoKwargs == [num_wells |-> 0, num_sites_per_well |-> 0]

\* get_mocked_interface's defaults: no fault is injected
NoFault ==
    [afc_always_fail_in_wells |-> {}, afc_fail_on_first_n_calls |-> 0,
     afc_failure_rate |-> "zero", raise_go_to_position_error_once |-> FALSE,
     raise_get_tagged_image_error_once |-> FALSE,
     get_tagged_image_error_rate |-> "zero"]

\* one autofocus fault mode, or the three together
AfcFaults ==
    { [NoFault EXCEPT !.afc_always_fail_in_wells = {w}] : w \in MockWells }
    \cup { [NoFault EXCEPT !.afc_fail_on_first_n_calls = k] : k \in 1..MaxFailFirstN }
    \cup { [NoFault EXCEPT !.afc_failure_rate = "positive"] }
    \cup { [NoFault EXCEPT !.afc_always_fail_in_wells = {w},
                           !.afc_fail_on_first_n_calls = k,
                           !.afc_failure_rate = "positive"] :
             w \in MockWells, k \in 1..MaxFailFirstN }

\* one stage or camera fault
OtherFaults ==
    { [NoFault EXCEPT !.raise_go_to_position_error_once = TRUE],
      [NoFault EXCEPT !.raise_get_tagged_image_error_once = TRUE],
      [NoFault EXCEPT !.get_tagged_image_error_rate = "positive"] }

\* (environment, data directory given)
Environments == { <<"prod", TRUE>>, <<"prod", FALSE>>, <<"dev", FALSE>> }

InitMocks(list, fault, catches, overridden) ==
    /\ position_list = list
    /\ afc_always_fail_in_wells = fault.afc_always_fail_in_wells
    /\ afc_fails_on_first_n_calls = fault.afc_fail_on_first_n_calls
    /\ afc_failure_rate = fault.afc_failure_rate
    /\ get_tagged_image_error_rate = fault.get_tagged_image_error_rate
    /\ raise_go_to_position_error_once = fault.raise_go_to_position_error_once
    /\ raise_get_tagged_image_error_once = fault.raise_get_tagged_image_error_once
    /\ once_flags_given =
         [go_to_position |-> fault.raise_go_to_position_error_once,
          get_tagged_image |-> fault.raise_get_tagged_image_error_once]
    /\ list_kwargs = NoKwargs
    /\ autofocus_catches = catches
    /\ confluency_overridden = overridden
    /\ num_full_focus_calls = 0
    /\ always_fail = FALSE
    /\ current_z_position = 0
    /\ position_ind = 0
    /\ images = 0

Init ==
    /\ \E e \in Environments : env = e[1] /\ data_dirpath = e[2]
    /\ \/ /\ \E list \in MockLists, overridden \in BOOLEAN :
                 InitMocks(list, NoFault, FALSE, overridden)
          /\ mocked_gate = TRUE
       \/ /\ \E list \in MockLists, fault \in AfcFaults, catches \in BOOLEAN :
                 InitMocks(list, fault, catches, FALSE)
          /\ mocked_gate = TRUE
       \/ /\ \E list \in MockLists, fault \in OtherFaults :
                 InitMocks(list, fault, FALSE, FALSE)
          /\ mocked_gate = TRUE
       \/ /\ \E list \in OtherLists, overridden \in BOOLEAN :
                 InitMocks(list, NoFault, FALSE, overridden)
          /\ mocked_gate \in BOOLEAN
    /\ datastore = "unset"
    /\ pc = "init"
    /\ error = "none"
    /\ range_next = 0
    /\ position_index = -1
    /\ position = <<>>
    /\ new_well_flag = FALSE
    /\ num_fovs_acquired_in_current_well = -1
    /\ calculated = <<>>
    /\ here = {}
    /\ well_here = <<>>
    /\ fovs_reached_in_well = 0
    /\ autoexposures_in_well = 0
    /\ exposure_used = <<>>
    /\ freeze_calls = 0
    /\ num_moves = 0
    /\ num_autoexposures = 0
    /\ num_stacks = 0
    /\ mock_calls = <<>>
    /\ arg_well_id = <<>>
    /\ returned = NotCalled
    /\ args = NoFlags
    /\ qc_calls = <<>>

\* ------------------------------------------- PipelinePlateProgram.__init__

\* the data directory is not asked for
DirectoryNeverNeeded(dirpath) == FALSE

\* _initialize_datastore raises ValueError without a data directory
DatastoreNeedsDirectory(dirpath) == ~dirpath

Construct ==
    /\ pc = "init"
    /\ IF env = "prod" /\ DatastoreNeedsDirectory(data_dirpath)
       THEN /\ pc' = "raised"
            /\ error' = "ValueError"
            /\ UNCHANGED datastore
       ELSE /\ pc' = "constructed"
            /\ error' = error
            /\ datastore' = IF env = "prod" THEN "open" ELSE "None"
    /\ UNCHANGED <<cfgVars, testVars, histVars>>
    /\ UNCHANGED <<raise_go_to_position_error_once, raise_get_tagged_image_error_once,
                   num_full_focus_calls, always_fail, current_z_position,
                   position_ind, images>>
    /\ UNCHANGED <<range_next, position_index, position, new_well_flag,
                   num_fovs_acquired_in_current_well, calculated>>

\* ------------------------------------------------ PipelinePlateProgram.run

getNumberOfPositions == Len(position_list)

\* position_list = self.mm_studio.getPositionList(); the range is created
RunStart ==
    /\ pc = "constructed"
    /\ pc' = "for"
    /\ range_next' = 0
    /\ UNCHANGED <<cfgVars, testVars, mockVars, histVars>>
    /\ UNCHANGED <<error, position_index, position, new_well_flag,
                   num_fovs_acquired_in_current_well, calculated>>

\* range(n) has a next value
RangeHasNext(i, n) == i < n

\* for position_index in range(...): the next iteration, or the loop's end
ForNext ==
    /\ pc = "for"
    /\ IF RangeHasNext(range_next, getNumberOfPositions)
       THEN /\ position_index' = range_next
            /\ range_next' = range_next + 1
            /\ pc' = "reset_piezo"
            /\ here' = {}
       ELSE /\ pc' = "cleanup"
            /\ UNCHANGED <<position_index, range_next, here>>
    /\ UNCHANGED <<cfgVars, testVars, mockVars>>
    /\ UNCHANGED <<error, position, new_well_flag,
                   num_fovs_acquired_in_current_well, calculated>>
    /\ UNCHANGED <<well_here, fovs_reached_in_well, autoexposures_in_well,
                   exposure_used, freeze_calls, num_moves, num_autoexposures,
                   num_stacks>>

\* the stage is left where it is
setPositionIgnored(z_now, zposition) == z_now

\* MMCore.setPosition: the z position after the call
setPosition(z_now, zposition) == zposition

\* self.mm_core.setPosition(global_settings.PIEZO_STAGE, 0.0)
ResetPiezo ==
    /\ pc = "reset_piezo"
    /\ current_z_position' = setPosition(current_z_position, 0)
    /\ here' = here \cup {"piezo"}
    /\ pc' = "get_position"
    /\ UNCHANGED <<cfgVars, testVars>>
    /\ UNCHANGED <<raise_go_to_position_error_once, raise_get_tagged_image_error_once,
                   num_full_focus_calls, always_fail, position_ind, images,
                   datastore>>
    /\ UNCHANGED <<error, range_next, position_index, position, new_well_flag,
                   num_fovs_acquired_in_current_well, calculated>>
    /\ UNCHANGED <<well_here, fovs_reached_in_well, autoexposures_in_well,
                   exposure_used, freeze_calls, num_moves, num_autoexposures,
                   num_stacks>>

\* the text of a label before its first "-": the well of a label that
\* parse_hcs_site_label does not accept
RECURSIVE WellPrefix(_)
WellPrefix(label) ==
    IF label = <<>> \/ Head(label) = "-" THEN <<>>
    ELSE <<Head(label)>> \o WellPrefix(Tail(label))

\* whether getPosition reads the position's label: the mock's does, in
\* set_position_ind; the py4j gate hands over the position list of
\* Micro-Manager as it is
GateReadsLabels == mocked_gate

\* position_list.getPosition(position_index).  The mock's calls the gate's
\* set_position_ind: the label is parsed (IndexError when it does not match)
\* and the autofocus plugin's _always_fail is set from the label's well.
\* The py4j gate's returns the position and reads no label.
GetPosition ==
    /\ pc = "get_position"
    /\ LET label == position_list[position_index + 1]
       IN  IF GateReadsLabels /\ ~HcsMatches(label)
           THEN /\ pc' = "raised"
                /\ error' = "IndexError"
                /\ position_ind' = position_index
                /\ UNCHANGED <<always_fail, position, well_here,
                               fovs_reached_in_well, autoexposures_in_well>>
           ELSE LET well_id == IF HcsMatches(label)
                               THEN parse_hcs_site_label(label).well_id
                               ELSE WellPrefix(label)
                IN  /\ pc' = "go_to_position"
                    /\ error' = error
                    /\ position_ind' = IF GateReadsLabels THEN position_index
                                       ELSE position_ind
                    /\ always_fail' = IF GateReadsLabels
                                      THEN well_id \in afc_always_fail_in_wells
                                      ELSE always_fail
                    /\ position' = label
                    /\ well_here' = well_id
                    /\ fovs_reached_in_well' =
                         IF well_id = well_here THEN fovs_reached_in_well ELSE 0
                    /\ autoexposures_in_well' =
                         IF well_id = well_here THEN autoexposures_in_well ELSE 0
    /\ UNCHANGED <<cfgVars, testVars>>
    /\ UNCHANGED <<raise_go_to_position_error_once, raise_get_tagged_image_error_once,
                   num_full_focus_calls, current_z_position, images, datastore>>
    /\ UNCHANGED <<range_next, position_index, new_well_flag,
                   num_fovs_acquired_in_current_well, calculated>>
    /\ UNCHANGED <<here, exposure_used, freeze_calls, num_moves,
                   num_autoexposures, num_stacks>>

\* position.goToPosition(position, self.mm_core): the mock raises once when
\* _raise_go_to_position_error_once is set; run() has no handler around it
GoToPosition ==
    /\ pc = "go_to_position"
    /\ IF raise_go_to_position_error_once
       THEN /\ raise_go_to_position_error_once' = FALSE
            /\ pc' = "raised"
            /\ error' = "Py4JJavaError"
            /\ here' = here \cup {"move_failed"}
            /\ UNCHANGED num_moves
       ELSE /\ pc' = "check_new_well"
            /\ here' = here \cup {"move"}
            /\ num_moves' = num_moves + 1
            /\ UNCHANGED <<raise_go_to_position_error_once, error>>
    /\ UNCHANGED <<cfgVars, testVars>>
    /\ UNCHANGED <<raise_get_tagged_image_error_once, num_full_focus_calls,
                   always_fail, current_z_position, position_ind, images,
                   datastore>>
    /\ UNCHANGED <<range_next, position_index, position, new_well_flag,
                   num_fovs_acquired_in_current_well, calculated>>
    /\ UNCHANGED <<well_here, fovs_reached_in_well, autoexposures_in_well,
                   exposure_used, freeze_calls, num_autoexposures, num_stacks>>

\* PipelinePlateProgram._is_first_position_in_new_well
is_first_position_in_new_well(position_label) ==
    Contains(Str_Site_0, position_label) \/ Contains(Str_Pos_000_000, position_label)

\* new_well_flag = ...; if new_well_flag: the counter is reset
CheckNewWell ==
    /\ pc = "check_new_well"
    /\ new_well_flag' = is_first_position_in_new_well(position)
    /\ num_fovs_acquired_in_current_well' =
         IF new_well_flag' THEN 0 ELSE num_fovs_acquired_in_current_well
    /\ pc' = "check_budget"
    /\ UNCHANGED <<cfgVars, testVars, mockVars, histVars>>
    /\ UNCHANGED <<error, range_next, position_index, position, calculated>>

\* num_fovs_acquired_in_current_well >= settings.MAX_NUM_FOV_PER_WELL
EnoughFovs(num_fovs) == num_fovs >= MAX_NUM_FOV_PER_WELL

\* if we have already acquired enough FOVs from the current well: continue.
\* Reading the counter before any new well set it raises AttributeError.
CheckBudget ==
    /\ pc = "check_budget"
    /\ IF num_fovs_acquired_in_current_well = -1
       THEN pc' = "raised" /\ error' = "AttributeError"
       ELSE /\ error' = error
            /\ pc' = IF EnoughFovs(num_fovs_acquired_in_current_well)
                     THEN "for" ELSE "autofocus"
    /\ UNCHANGED <<cfgVars, testVars, mockVars, histVars>>
    /\ UNCHANGED <<range_next, position_index, position, new_well_flag,
                   num_fovs_acquired_in_current_well, calculated>>

\* every raising call of fullFocus is counted
EveryFailureCounted(outcome) == outcome # "ok"

\* self._num_full_focus_calls += 1 is in the third branch of fullFocus only
CountedCall(outcome) == outcome = "warmup"

\* fullFocus without its first branch
FullFocusWithoutAlwaysFail ==
    (IF afc_failure_rate = "positive" THEN {"random"} ELSE {})
    \cup (IF num_full_focus_calls < afc_fails_on_first_n_calls
          THEN {"warmup"} ELSE {"ok"})

\* fullFocus with a warm-up window that is one call too long
FullFocusWarmupOneMore ==
    IF always_fail THEN {"always"}
    ELSE (IF afc_failure_rate = "positive" THEN {"random"} ELSE {})
         \cup (IF num_full_focus_calls <= afc_fails_on_first_n_calls
               THEN {"warmup"} ELSE {"ok"})

\* AutofocusPlugin.fullFocus: how the next call ends.  "always", "random"
\* and "warmup" are the three branches that raise MockPy4JJavaError; the
\* random branch is taken or not whenever the failure rate is positive.
FullFocusOutcomes ==
    IF always_fail THEN {"always"}
    ELSE (IF afc_failure_rate = "positive" THEN {"random"} ELSE {})
         \cup (IF num_full_focus_calls < afc_fails_on_first_n_calls
               THEN {"warmup"} ELSE {"ok"})

\* operations.autofocus (not under src/): it calls fullFocus and either lets
\* the error through or reports the failure to its caller
AutofocusReturns(outcome) == outcome = "ok" \/ autofocus_catches

\* operations.autofocus(...): run() calls it as a statement and goes on to
\* the confluency test whenever it returns
Autofocus ==
    /\ pc = "autofocus"
    /\ \E outcome \in FullFocusOutcomes :
        /\ num_full_focus_calls' =
             IF CountedCall(outcome) THEN num_full_focus_calls + 1
             ELSE num_full_focus_calls
        /\ here' = here \cup {IF outcome = "ok" THEN "focused" ELSE "focus_failed"}
        /\ IF AutofocusReturns(outcome)
           THEN pc' = "confluency" /\ error' = error
           ELSE pc' = "raised" /\ error' = "Py4JJavaError"
    /\ UNCHANGED <<cfgVars, testVars>>
    /\ UNCHANGED <<raise_go_to_position_error_once, raise_get_tagged_image_error_once,
                   always_fail, current_z_position, position_ind, images,
                   datastore>>
    /\ UNCHANGED <<range_next, position_index, position, new_well_flag,
                   num_fovs_acquired_in_current_well, calculated>>
    /\ UNCHANGED <<well_here, fovs_reached_in_well, autoexposures_in_well,
                   exposure_used, freeze_calls, num_moves, num_autoexposures,
                   num_stacks>>

\* PipelinePlateProgram.confluency_test
confluency_test == TRUE

\* what self.confluency_test() can return: line 103's True, or either value
\* when a subclass supplies the test
ConfluencyResults == IF confluency_overridden THEN BOOLEAN ELSE {confluency_test}

\* ConfluencySkips with the test of line 167 dropped: a refused position is
\* acquired like an accepted one
ConfluencyNeverSkips(result) == FALSE

\* if not self.confluency_test(): continue
ConfluencySkips(result) == ~result

\* NeedsAutoexposure with the test of line 172 dropped: autoexposure runs at
\* every accepted position
AutoexposureAtEveryPosition(flag) == TRUE

\* if new_well_flag: autoexposure
NeedsAutoexposure(flag) == flag

Confluency ==
    /\ pc = "confluency"
    /\ \E result \in ConfluencyResults :
        /\ here' = here \cup {"confluency"}
                         \cup (IF result THEN {} ELSE {"refused"})
        /\ pc' = IF ConfluencySkips(result) THEN "for"
                 ELSE IF NeedsAutoexposure(new_well_flag) THEN "autoexposure"
                 ELSE "acquire_405"
    /\ UNCHANGED <<cfgVars, testVars, mockVars>>
    /\ UNCHANGED <<error, range_next, position_index, position, new_well_flag,
                   num_fovs_acquired_in_current_well, calculated>>
    /\ UNCHANGED <<well_here, fovs_reached_in_well, autoexposures_in_well,
                   exposure_used, freeze_calls, num_moves, num_autoexposures,
                   num_stacks>>

\* operations.autoexposure(settings.CHANNEL_488) and the two assignments to
\* settings.CHANNEL_488['calculated_laser_power'/'calculated_exposure_time']
Autoexposure ==
    /\ pc = "autoexposure"
    /\ calculated' = well_here
    /\ here' = here \cup {"autoexposure"}
    /\ autoexposures_in_well' = autoexposures_in_well + 1
    /\ num_autoexposures' = num_autoexposures + 1
    /\ pc' = "acquire_405"
    /\ UNCHANGED <<cfgVars, testVars, mockVars>>
    /\ UNCHANGED <<error, range_next, position_index, position, new_well_flag,
                   num_fovs_acquired_in_current_well>>
    /\ UNCHANGED <<well_here, fovs_reached_in_well, exposure_used, freeze_calls,
                   num_moves, num_stacks>>

\* MMCore.getTaggedImage: how the next call ends
TaggedImageOutcomes ==
    IF raise_get_tagged_image_error_once THEN {"once"}
    ELSE {"ok"} \cup (IF get_tagged_image_error_rate = "positive"
                     THEN {"random"} ELSE {})

\* operations.acquire_stack(self.datastore, channel) (not under src/): the
\* piezo stage is stepped up to the top of the stack, every image is taken
\* with getTaggedImage and put into the datastore when there is one; an
\* error of getTaggedImage is not handled by run()
AcquireStack(channel, next_pc) ==
    \E outcome \in TaggedImageOutcomes :
        /\ raise_get_tagged_image_error_once' = FALSE
        /\ IF outcome = "ok"
           THEN /\ images' = IF datastore = "open" THEN images + 1 ELSE images
                /\ current_z_position' = RELATIVE_TOP
                /\ num_stacks' = num_stacks + 1
                /\ here' = here \cup {channel}
                /\ pc' = next_pc
                /\ error' = error
           ELSE /\ pc' = "raised"
                /\ error' = "Py4JJavaError"
                /\ UNCHANGED <<images, current_z_position, num_stacks, here>>

\* operations.acquire_stack(self.datastore, settings.CHANNEL_405)
Acquire405 ==
    /\ pc = "acquire_405"
    /\ AcquireStack("stack405", "acquire_488")
    /\ fovs_reached_in_well' = fovs_reached_in_well + 1
    /\ UNCHANGED <<cfgVars, testVars>>
    /\ UNCHANGED <<raise_go_to_position_error_once, num_full_focus_calls,
                   always_fail, position_ind, datastore>>
    /\ UNCHANGED <<range_next, position_index, position, new_well_flag,
                   num_fovs_acquired_in_current_well, calculated>>
    /\ UNCHANGED <<well_here, autoexposures_in_well, exposure_used, freeze_calls,
                   num_moves, num_autoexposures>>

\* operations.acquire_stack(self.datastore, settings.CHANNEL_488), with the
\* calculated laser power and exposure time; the end of the loop's body
Acquire488 ==
    /\ pc = "acquire_488"
    /\ AcquireStack("stack488", "for")
    /\ exposure_used' = calculated
    /\ UNCHANGED <<cfgVars, testVars>>
    /\ UNCHANGED <<raise_go_to_position_error_once, num_full_focus_calls,
                   always_fail, position_ind, datastore>>
    /\ UNCHANGED <<range_next, position_index, position, new_well_flag,
                   num_fovs_acquired_in_current_well, calculated>>
    /\ UNCHANGED <<well_here, fovs_reached_in_well, autoexposures_in_well,
                   freeze_calls, num_moves, num_autoexposures>>

\* ------------------------------------------- PipelinePlateProgram.cleanup

\* HasDatastore with the test of line 85 dropped: freeze is called whatever
\* self.datastore is
FreezeWithoutTest(ds) == TRUE

\* if self.datastore:
HasDatastore(ds) == ds # "None"

\* cleanup called from a finally clause: after an error too
CleanupInFinally(at) == at \in {"cleanup", "raised"}

\* self.cleanup() is the statement after the loop, in no try statement: it
\* is reached when the loop has ended
CleanupReached(at) == at = "cleanup"

\* self.cleanup(): the last statement of run()
Cleanup ==
    /\ CleanupReached(pc)
    /\ IF HasDatastore(datastore)
       THEN datastore' = "frozen" /\ freeze_calls' = freeze_calls + 1
       ELSE UNCHANGED <<datastore, freeze_calls>>
    /\ pc' = "done"
    /\ UNCHANGED <<cfgVars, testVars>>
    /\ UNCHANGED <<raise_go_to_position_error_once, raise_get_tagged_image_error_once,
                   num_full_focus_calls, always_fail, current_z_position,
                   position_ind, images>>
    /\ UNCHANGED <<error, range_next, position_index, position, new_well_flag,
                   num_fovs_acquired_in_current_well, calculated>>
    /\ UNCHANGED <<here, well_here, fovs_reached_in_well, autoexposures_in_well,
                   exposure_used, num_moves, num_autoexposures, num_stacks>>

\* ----------------------------------------------------------- specification

Next ==
    \/ Construct
    \/ RunStart
    \/ ForNext
    \/ ResetPiezo
    \/ GetPosition
    \/ GoToPosition
    \/ CheckNewWell
    \/ CheckBudget
    \/ Autofocus
    \/ Confluency
    \/ Autoexposure
    \/ Acquire405
    \/ Acquire488
    \/ Cleanup

Spec == Init /\ [][Next]_vars

\* ------------------------------------------ the mocked interface by itself
\* get_mocked_interface's objects called in any order: getPosition on any
\* position of the list and fullFocus on the autofocus plugin.

\* every combination of the three autofocus fault modes
AfcSettings ==
    { [NoFault EXCEPT !.afc_always_fail_in_wells = ws,
                      !.afc_fail_on_first_n_calls = k,
                      !.afc_failure_rate = r] :
        ws \in {{}} \cup { {w} : w \in MockWells },
        k \in 0..MaxFailFirstN,
        r \in {"zero", "positive"} }

\* no program is constructed and no run is made
NoRun ==
    /\ env = "dev"
    /\ data_dirpath = FALSE
    /\ datastore = "unset"
    /\ mocked_gate = TRUE
    /\ error = "none"
    /\ range_next = 0
    /\ position_index = -1
    /\ position = <<>>
    /\ new_well_flag = FALSE
    /\ num_fovs_acquired_in_current_well = -1
    /\ calculated = <<>>
    /\ here = {}
    /\ well_here = <<>>
    /\ fovs_reached_in_well = 0
    /\ autoexposures_in_well = 0
    /\ exposure_used = <<>>
    /\ freeze_calls = 0
    /\ num_moves = 0
    /\ num_autoexposures = 0
    /\ num_stacks = 0

MockInit ==
    /\ \E w \in 1..MaxNumWells, fault \in AfcSettings :
         InitMocks(construct_position_list(w, 1), fault, FALSE, FALSE)
    /\ NoRun
    /\ pc = "mock"
    /\ mock_calls = <<>>
    /\ arg_well_id = <<>>
    /\ returned = NotCalled
    /\ args = NoFlags
    /\ qc_calls = <<>>

\* PositionList.getPosition(ind) and the gate's set_position_ind
MockGetPosition ==
    /\ pc = "mock"
    /\ Len(mock_calls) < MaxMockCalls
    /\ \E ind \in 0..(Len(position_list) - 1) :
         LET label == position_list[ind + 1]
             well_id == parse_hcs_site_label(label).well_id
         IN  /\ position_ind' = ind
             /\ always_fail' = (well_id \in afc_always_fail_in_wells)
             /\ position' = label
             /\ mock_calls' = Append(mock_calls, <<"getPosition", well_id>>)
    /\ UNCHANGED <<cfgVars, histVars, arg_well_id, returned, args, qc_calls>>
    /\ UNCHANGED <<raise_go_to_position_error_once, raise_get_tagged_image_error_once,
                   num_full_focus_calls, current_z_position, images, datastore>>
    /\ UNCHANGED <<pc, error, range_next, position_index, new_well_flag,
                   num_fovs_acquired_in_current_well, calculated>>

\* AutofocusPlugin.fullFocus
MockFullFocus ==
    /\ pc = "mock"
    /\ Len(mock_calls) < MaxMockCalls
    /\ \E outcome \in FullFocusOutcomes :
         /\ num_full_focus_calls' =
              IF CountedCall(outcome) THEN num_full_focus_calls + 1
              ELSE num_full_focus_calls
         /\ mock_calls' = Append(mock_calls, <<"fullFocus", outcome>>)
    /\ UNCHANGED <<cfgVars, histVars, runVars, arg_well_id, returned, args,
                   qc_calls>>
    /\ UNCHANGED <<raise_go_to_position_error_once, raise_get_tagged_image_error_once,
                   always_fail, current_z_position, position_ind, images,
                   datastore>>

MockNext ==
    \/ MockGetPosition
    \/ MockFullFocus

MockSpec == MockInit /\ [][MockNext]_vars

\* ------------------------------------------ the mocked stage and camera
\* Position.goToPosition and MMCore.getTaggedImage called in any order

\* every combination of the two one-shot flags and the camera's error rate
StageCameraSettings ==
    { [NoFault EXCEPT !.raise_go_to_position_error_once = go,
                      !.raise_get_tagged_image_error_once = tagged,
                      !.get_tagged_image_error_rate = r] :
        go \in BOOLEAN, tagged \in BOOLEAN, r \in {"zero", "positive"} }

DeviceInit ==
    /\ \E fault \in StageCameraSettings :
         InitMocks(construct_position_list(1, 1), fault, FALSE, FALSE)
    /\ NoRun
    /\ pc = "mock"
    /\ mock_calls = <<>>
    /\ arg_well_id = <<>>
    /\ returned = NotCalled
    /\ args = NoFlags
    /\ qc_calls = <<>>

\* the flag is left set
NeverCleared(flag, raised) == flag

\* a one-shot flag after a call: set to False in the branch that raises
ClearedOnRaise(flag, raised) == IF raised THEN FALSE ELSE flag

\* Position.goToPosition
MockGoToPosition ==
    /\ pc = "mock"
    /\ Len(mock_calls) < MaxMockCalls
    /\ LET raised == raise_go_to_position_error_once
       IN  /\ raise_go_to_position_error_once' =
                ClearedOnRaise(raise_go_to_position_error_once, raised)
           /\ mock_calls' = Append(mock_calls,
                <<"goToPosition", IF raised THEN "once" ELSE "ok">>)
    /\ UNCHANGED <<cfgVars, histVars, runVars, arg_well_id, returned, args,
                   qc_calls>>
    /\ UNCHANGED <<raise_get_tagged_image_error_once, num_full_focus_calls,
                   always_fail, current_z_position, position_ind, images,
                   datastore>>

\* MMCore.getTaggedImage
MockGetTaggedImage ==
    /\ pc = "mock"
    /\ Len(mock_calls) < MaxMockCalls
    /\ \E outcome \in TaggedImageOutcomes :
         /\ raise_get_tagged_image_error_once' =
              ClearedOnRaise(raise_get_tagged_image_error_once, outcome = "once")
         /\ mock_calls' = Append(mock_calls, <<"getTaggedImage", outcome>>)
    /\ UNCHANGED <<cfgVars, histVars, runVars, arg_well_id, returned, args,
                   qc_calls>>
    /\ UNCHANGED <<raise_go_to_position_error_once, num_full_focus_calls,
                   always_fail, current_z_position, position_ind, images,
                   datastore>>

DeviceNext ==
    \/ MockGoToPosition
    \/ MockGetTaggedImage

DeviceSpec == DeviceInit /\ [][DeviceNext]_vars

\* ------------------------------------ the mocked list, label by label
\* PositionList built for num_wells and num_sites_per_well, and the
\* program's new-well test applied to its labels in order

ListInit ==
    /\ \E w \in (1..MaxListedWells) \cup {NumPlateWells},
          s \in 1..MaxListedSites :
         /\ list_kwargs = [num_wells |-> w, num_sites_per_well |-> s]
         /\ position_list = construct_position_list(w, s)
    /\ afc_always_fail_in_wells = NoFault.afc_always_fail_in_wells
    /\ afc_fails_on_first_n_calls = NoFault.afc_fail_on_first_n_calls
    /\ afc_failure_rate = NoFault.afc_failure_rate
    /\ get_tagged_image_error_rate = NoFault.get_tagged_image_error_rate
    /\ raise_go_to_position_error_once = NoFault.raise_go_to_position_error_once
    /\ raise_get_tagged_image_error_once = NoFault.raise_get_tagged_image_error_once
    /\ once_flags_given = [go_to_position |-> FALSE, get_tagged_image |-> FALSE]
    /\ autofocus_catches = FALSE
    /\ confluency_overridden = FALSE
    /\ num_full_focus_calls = 0
    /\ always_fail = FALSE
    /\ current_z_position = 0
    /\ position_ind = 0
    /\ images = 0
    /\ NoRun
    /\ pc = "list"
    /\ mock_calls = <<>>
    /\ arg_well_id = <<>>
    /\ returned = NotCalled
    /\ args = NoFlags
    /\ qc_calls = <<>>

\* the next label of the list is read (PositionList._position_list[ind])
\* and given to _is_first_position_in_new_well
TestNextLabel ==
    /\ pc = "list"
    /\ position_index + 1 < getNumberOfPositions
    /\ position_index' = position_index + 1
    /\ position' = position_list[position_index' + 1]
    /\ new_well_flag' = is_first_position_in_new_well(position')
    /\ UNCHANGED <<cfgVars, mockVars, histVars, testVars>>
    /\ UNCHANGED <<pc, error, range_next, num_fovs_acquired_in_current_well,
                   calculated>>

ListNext == TestNextLabel

ListSpec == ListInit /\ [][ListNext]_vars

\* ------------------------------------------------ utils.well_id_to_position
\* the function called once on a well id

\* the ids of the plate's wells, and ids of the same pattern with a
\* zero-padded column
WellIds ==
    { WellIdAt(k) : k \in 0..(NumPlateWells - 1) }
    \cup { <<RowChars[r], "0", DigitChars[d]>> : r \in 1..8, d \in 1..10 }

\* the mocked interface with its defaults, left alone
MocksUnused == InitMocks(construct_position_list(1, 1), NoFault, FALSE, FALSE)

UtilsInit ==
    /\ arg_well_id \in WellIds
    /\ returned = NotCalled
    /\ MocksUnused
    /\ NoRun
    /\ pc = "utils"
    /\ mock_calls = <<>>
    /\ args = NoFlags
    /\ qc_calls = <<>>

CallWellIdToPosition ==
    /\ pc = "utils"
    /\ pc' = "returned"
    /\ returned' = well_id_to_position(arg_well_id)
    /\ UNCHANGED <<cfgVars, mockVars, histVars, mock_calls, arg_well_id, args,
                   qc_calls>>
    /\ UNCHANGED <<error, range_next, position_index, position, new_well_flag,
                   num_fovs_acquired_in_current_well, calculated>>

UtilsNext == CallWellIdToPosition

UtilsSpec == UtilsInit /\ [][UtilsNext]_vars

\* ------------------------------------------------------- scripts/run_qc.py
\* one run of the script on a command line

\* a method of PipelinePlateQC is called with its arguments and returns
PipelinePlateQC(method) == <<method>>

\* the calls of 'if args.plot', and the plots of 'if args.run_all'
PlotCalls ==
    PipelinePlateQC("plot_counts_and_scores")
    \o PipelinePlateQC("tile_acquired_fovs channel_ind=0")
    \o PipelinePlateQC("tile_acquired_fovs channel_ind=1")

\* main() without its last if
main_without_run_all(a) ==
    (IF a.inspect THEN PipelinePlateQC("summarize") ELSE <<>>)
    \o (IF a.project THEN PipelinePlateQC("generate_z_projections") ELSE <<>>)
    \o (IF a.plot THEN PlotCalls ELSE <<>>)
    \o (IF a.construct_metadata
        THEN PipelinePlateQC(IF a.overwrite
                             THEN "construct_fov_metadata overwrite=True"
                             ELSE "construct_fov_metadata overwrite=False")
        ELSE <<>>)

\* main(): the calls it makes on qc, in order
main(a) ==
    (IF a.inspect THEN PipelinePlateQC("summarize") ELSE <<>>)
    \o (IF a.project THEN PipelinePlateQC("generate_z_projections") ELSE <<>>)
    \o (IF a.plot THEN PlotCalls ELSE <<>>)
    \o (IF a.construct_metadata
        THEN PipelinePlateQC(IF a.overwrite
                             THEN "construct_fov_metadata overwrite=True"
                             ELSE "construct_fov_metadata overwrite=False")
        ELSE <<>>)
    \o (IF a.run_all
        THEN PipelinePlateQC("plot_counts_and_scores")
             \o PipelinePlateQC("generate_z_projections")
             \o PipelinePlateQC("tile_acquired_fovs channel_ind=0")
             \o PipelinePlateQC("tile_acquired_fovs channel_ind=1")
        ELSE <<>>)

\* parse_args has returned: every flag is given or not
QcInit ==
    /\ args \in [action_arg_names -> BOOLEAN]
    /\ qc_calls = <<>>
    /\ MocksUnused
    /\ NoRun
    /\ pc = "qc"
    /\ mock_calls = <<>>
    /\ arg_well_id = <<>>
    /\ returned = NotCalled

Main ==
    /\ pc = "qc"
    /\ pc' = "exit"
    /\ qc_calls' = main(args)
    /\ UNCHANGED <<cfgVars, mockVars, histVars, mock_calls, arg_well_id,
                   returned, args>>
    /\ UNCHANGED <<error, range_next, position_index, position, new_well_flag,
                   num_fovs_acquired_in_current_well, calculated>>

QcNext == Main

QcSpec == QcInit /\ [][QcNext]_vars

\* ------------------------------------------------------------------ claims

\* the steps of run() that work on a position after the budget check
WorkSteps == {"autofocus", "confluency", "autoexposure", "acquire_405"}

\* no fault of the mock is switched on, and the confluency test is line 103's
FaultFree ==
    /\ afc_always_fail_in_wells = {}
    /\ afc_fails_on_first_n_calls = 0
    /\ afc_failure_rate = "zero"
    /\ get_tagged_image_error_rate = "zero"
    /\ ~raise_go_to_position_error_once
    /\ ~raise_get_tagged_image_error_once
    /\ "move_failed" \notin here
    /\ error # "Py4JJavaError"
    /\ ~confluency_overridden

\* C1: the number of positions of one well that reach stack acquisition
\* (its accepted FOVs) never exceeds MAX_NUM_FOV_PER_WELL.
C1_AcceptedFovsWithinCap == fovs_reached_in_well <= MAX_NUM_FOV_PER_WELL

\* C2: at a position whose well already has MAX_NUM_FOV_PER_WELL accepted
\* FOVs, run() performs no autofocus, confluency test, autoexposure or stack
\* acquisition.
C2_ExhaustedWellDoesNoWork ==
    fovs_reached_in_well >= MAX_NUM_FOV_PER_WELL => pc \notin WorkSteps

\* C3: a position at which autofocus fails never proceeds to the confluency
\* test, autoexposure or stack acquisition.
C3_FailedAutofocusEndsPosition ==
    "focus_failed" \in here =>
        /\ pc \notin {"confluency", "autoexposure", "acquire_405", "acquire_488"}
        /\ here \cap {"confluency", "autoexposure", "stack405", "stack488"} = {}

\* C4: when autofocus always fails in one well and nothing else is faulty,
\* no position of that well is tested for confluency or acquired, every
\* position of another well is moved to, focused and acquired, and the run
\* is not ended by the device error.
C4_AlwaysFailWellSkippedOthersAcquired ==
    ( /\ Cardinality(afc_always_fail_in_wells) = 1
      /\ afc_fails_on_first_n_calls = 0
      /\ afc_failure_rate = "zero" ) =>
        /\ error # "Py4JJavaError"
        /\ well_here \in afc_always_fail_in_wells =>
             /\ here \cap {"confluency", "stack405", "stack488"} = {}
             /\ fovs_reached_in_well = 0
        /\ ( /\ pc = "for"
             /\ position_index >= 0
             /\ well_here \notin afc_always_fail_in_wells ) =>
             {"move", "focused", "stack405", "stack488"} \subseteq here

\* C5: when goToPosition fails at a position, run() skips that position and
\* goes on with the next one: the failure does not end the run.
C5_MoveFailureSkipsPosition ==
    "move_failed" \in here => pc = "for" /\ error = "none"

\* C6: when the confluency test returns False at a position, neither
\* autoexposure nor a stack acquisition is performed for it, the accepted-FOV
\* counts are left as they were, and the loop goes on with the next index.
C6_RefusedPositionIsSkipped ==
    /\ []( "refused" \in here =>
             /\ pc \in {"for", "cleanup", "done"}
             /\ here \cap {"autoexposure", "stack405", "stack488"} = {}
             /\ pc = "for" => range_next = position_index + 1 )
    /\ [][ ("refused" \notin here /\ "refused" \in here') =>
             /\ pc' = "for"
             /\ num_fovs_acquired_in_current_well' = num_fovs_acquired_in_current_well
             /\ fovs_reached_in_well' = fovs_reached_in_well
             /\ num_autoexposures' = num_autoexposures
             /\ num_stacks' = num_stacks ]_vars

\* C6 happens: the first position of a well was refused and another
\* position follows.
C6_RefusedAtNewWell ==
    /\ "refused" \in here
    /\ pc = "for"
    /\ new_well_flag
    /\ range_next < Len(position_list)

\* every label matches the well-site pattern and the positions of a well
\* are next to each other
WellsContiguous(list) ==
    /\ \A i \in 1..Len(list) : HcsMatches(list[i])
    /\ \A i, j, k \in 1..Len(list) :
         ( /\ i < j
           /\ j < k
           /\ parse_hcs_site_label(list[i]).well_id
                = parse_hcs_site_label(list[k]).well_id ) =>
           parse_hcs_site_label(list[j]).well_id
             = parse_hcs_site_label(list[i]).well_id

\* no two positions are the same site of the same well
DistinctSites(list) ==
    \A i, j \in 1..Len(list) :
        i # j => parse_hcs_site_label(list[i]) # parse_hcs_site_label(list[j])

\* C7: over a list whose wells are contiguous (and whose positions are
\* distinct sites), autoexposure is invoked at most once per well and only
\* at a position flagged as the first of a new well.
C7_AutoexposureOncePerWell ==
    (WellsContiguous(position_list) /\ DistinctSites(position_list)) =>
        /\ autoexposures_in_well <= 1
        /\ "autoexposure" \in here => new_well_flag

\* C8 as stated: in every run that completes, the datastore is finalized
\* exactly once.
C8_FrozenOnceInEveryCompletedRun ==
    pc = "done" => freeze_calls = 1 /\ datastore = "frozen"

\* C8 as amended: a run that completes finalizes the datastore exactly once
\* when there is one (env 'prod') and never when there is none (env 'dev');
\* freeze is called only after the last position was processed, and no
\* image is put into a frozen datastore.
C8_FrozenOnceWhenThereIsADatastore ==
    /\ []( pc = "done" => freeze_calls = (IF env = "prod" THEN 1 ELSE 0) )
    /\ []( freeze_calls >= 1 =>
             /\ pc = "done"
             /\ datastore = "frozen"
             /\ error = "none"
             /\ range_next = Len(position_list) )
    /\ [][ datastore = "frozen" => images' = images /\ datastore' = "frozen" ]_vars

\* C8 happens: a run over every position has completed and its datastore,
\* holding the stacks of the run, is frozen.
C8_CompletedAndFrozen ==
    /\ pc = "done"
    /\ datastore = "frozen"
    /\ images = 2 * Len(position_list)
    /\ Len(position_list) >= 2

\* the position list is the mock's for w wells of s sites
IsMockedList(w, s) == position_list = construct_position_list(w, s)

\* C9 as stated: a fault-free run over W wells of S sites (S within the cap)
\* visits W*S positions, runs autoexposure W times, captures W*S stacks and
\* finalizes the datastore once.
C9_TotalsAsStated ==
    \A w \in 1..MaxNumWells, s \in 1..MaxNumSitesPerWell :
        ( /\ s <= MAX_NUM_FOV_PER_WELL
          /\ IsMockedList(w, s)
          /\ FaultFree
          /\ pc = "done" ) =>
            /\ num_moves = w * s
            /\ num_autoexposures = w
            /\ num_stacks = w * s
            /\ freeze_calls = 1

\* C9 as amended: such a run always completes; it visits W*S positions, runs
\* autoexposure W times, captures 2*W*S stacks (the 405 and the 488 stack of
\* each position) and finalizes the datastore once in 'prod', never in 'dev'.
C9_FaultFreeTotals ==
    \A w \in 1..MaxNumWells, s \in 1..MaxNumSitesPerWell :
        ( /\ s <= MAX_NUM_FOV_PER_WELL
          /\ IsMockedList(w, s)
          /\ FaultFree ) =>
            /\ pc = "raised" => error = "ValueError"
            /\ pc = "done" =>
                 /\ num_moves = w * s
                 /\ num_autoexposures = w
                 /\ num_stacks = 2 * w * s
                 /\ freeze_calls = (IF env = "prod" THEN 1 ELSE 0)

\* C9 happens: the stated case, 3 wells of 2 sites, has completed in 'prod'.
C9_ThreeWellsTwoSitesDone ==
    /\ IsMockedList(3, 2)
    /\ FaultFree
    /\ env = "prod"
    /\ pc = "done"
    /\ num_autoexposures = 3
    /\ num_stacks = 12

\* C10: the position index goes up by one per iteration, and run() is ended
\* early only by an error of a device call (or never started, when the
\* constructor failed): otherwise the loop ends after the last position and
\* cleanup runs.
C10_IndexAdvancesAndLoopCompletes ==
    /\ position_index = range_next - 1
    /\ pc = "raised" => error \in {"ValueError", "Py4JJavaError", "IndexError"}

\* C11: for every label that matches the well-site pattern, the new-well
\* test made by run() is true exactly when parse_hcs_site_label gives site
\* number 0.
C11_NewWellFlagIffSiteZero ==
    (pc = "check_budget" /\ HcsMatches(position)) =>
        (new_well_flag <=> parse_hcs_site_label(position).site_num = 0)

\* the current position's label is not of the well-site pattern
MalformedLabelHere ==
    /\ position_index >= 0
    /\ ~HcsMatches(position_list[position_index + 1])

\* C12: a run that reaches a position whose label does not match the
\* well-site pattern is ended by an error at that position: the position is
\* never acquired and its iteration never ends normally.
C12_MalformedLabelAbortsRun ==
    MalformedLabelHere =>
        /\ pc \notin {"for", "cleanup", "done"}
        /\ here \cap {"stack405", "stack488"} = {}

\* C13: run() never writes into a channel's settings: the keys
\* 'calculated_laser_power' and 'calculated_exposure_time' of
\* settings.CHANNEL_488 stay as they were before the run (not set).
C13_ChannelSettingsNeverWritten == calculated = <<>>

\* C14: at every position the piezo z position is set to 0 before the move
\* to the position is issued: when the move is about to be made the stage is
\* at 0, and a move made or attempted at a position follows the reset of
\* the same iteration.
C14_PiezoResetBeforeMove ==
    /\ pc = "go_to_position" => (current_z_position = 0 /\ "piezo" \in here)
    /\ here \cap {"move", "move_failed"} # {} => "piezo" \in here

\* C14 happens: the stacks of an earlier position left the stage at the top
\* of the stack, and the next position's move is about to be issued.
C14_MoveAfterEarlierStacks ==
    /\ pc = "go_to_position"
    /\ position_index >= 1
    /\ num_stacks >= 2
    /\ "piezo" \in here

\* C15: constructing the program in 'prod' without a data directory fails
\* with ValueError before a datastore is created, so that no run starts and
\* no position is visited; constructing it in 'dev' succeeds and leaves the
\* program without a datastore.
C15_ProdNeedsDataDirectory ==
    /\ (env = "prod" /\ ~data_dirpath /\ pc # "init") =>
          /\ pc = "raised"
          /\ error = "ValueError"
          /\ datastore = "unset"
          /\ position_index = -1
          /\ num_moves = 0
          /\ images = 0
    /\ (env = "dev" /\ pc # "init") =>
          /\ datastore = "None"
          /\ error # "ValueError"

\* C15 happens: the constructor was called in 'prod' without a data
\* directory and has raised.
C15_ConstructorRaised ==
    /\ env = "prod"
    /\ ~data_dirpath
    /\ pc = "raised"
    /\ error = "ValueError"

\* the outcomes of the fullFocus calls made so far, in call order
FullFocusCalls == SelectSeq(mock_calls, LAMBDA c : c[1] = "fullFocus")

\* C16: with afc_fail_on_first_n_calls = N, a failure rate of 0 and no
\* always-fail wells, the k-th call of fullFocus raises exactly when k <= N.
C16_ExactlyFirstNCallsFail ==
    (afc_failure_rate = "zero" /\ afc_always_fail_in_wells = {}) =>
        \A k \in 1..Len(FullFocusCalls) :
            FullFocusCalls[k][2] # "ok" <=> k <= afc_fails_on_first_n_calls

\* C16 happens: N >= 1 calls have failed and the two calls after them have
\* succeeded.
C16_WarmupOver ==
    /\ afc_failure_rate = "zero"
    /\ afc_always_fail_in_wells = {}
    /\ afc_fails_on_first_n_calls >= 1
    /\ Len(FullFocusCalls) = afc_fails_on_first_n_calls + 2
    /\ FullFocusCalls[1][2] = "warmup"
    /\ FullFocusCalls[Len(FullFocusCalls)][2] = "ok"

\* the getPosition calls made before the k-th call
PositionCallsBefore(k) ==
    { j \in 1..(k - 1) : mock_calls[j][1] = "getPosition" }

\* the k-th call is made while the current position, that of the latest
\* getPosition, is in a well of afc_always_fail_in_wells
InListedWellAt(k) ==
    LET js == PositionCallsBefore(k)
    IN  /\ js # {}
        /\ LET last == CHOOSE j \in js : \A i \in js : i <= j
           IN  mock_calls[last][2] \in afc_always_fail_in_wells

\* C17 as stated: once a position of a well of afc_always_fail_in_wells has
\* been entered, every later fullFocus call fails.
C17_AlwaysFailIsPermanent ==
    \A j, k \in 1..Len(mock_calls) :
        ( /\ j < k
          /\ mock_calls[j][1] = "getPosition"
          /\ mock_calls[j][2] \in afc_always_fail_in_wells
          /\ mock_calls[k][1] = "fullFocus" ) =>
            mock_calls[k][2] # "ok"

\* C17 as amended: a fullFocus call fails for the always-fail reason exactly
\* when the current position is in a well of afc_always_fail_in_wells, at
\* any time; once the current position is in another well fullFocus fails
\* only for the other two reasons, and succeeds when there is none.
C17_AlwaysFailWhileInListedWell ==
    \A k \in 1..Len(mock_calls) :
        mock_calls[k][1] = "fullFocus" =>
            /\ mock_calls[k][2] = "always" <=> InListedWellAt(k)
            /\ ( /\ ~InListedWellAt(k)
                 /\ afc_failure_rate = "zero"
                 /\ afc_fails_on_first_n_calls = 0 ) => mock_calls[k][2] = "ok"

\* C17 happens: fullFocus failed in the listed well, the next position was
\* in another well, and fullFocus was called there.
C17_LeftTheListedWell ==
    /\ Len(mock_calls) = 4
    /\ mock_calls[1][1] = "getPosition"
    /\ mock_calls[1][2] \in afc_always_fail_in_wells
    /\ mock_calls[2] = <<"fullFocus", "always">>
    /\ mock_calls[3][1] = "getPosition"
    /\ mock_calls[3][2] \notin afc_always_fail_in_wells
    /\ mock_calls[4][1] = "fullFocus"

\* C18: well_id_to_position maps the k-th well id of the plate, in the order
\* in which the mocked position list enumerates the wells (row A-H, column
\* 1-12), to (row, col) with row in 0..7, col in 0..11 and row*12 + col = k:
\* 'A1' to (0, 0) and 'H12' to (7, 11); no other well id of the plate is
\* mapped to the same pair.
C18_WellIdToPosition ==
    pc = "returned" =>
        /\ \A k \in 0..(NumPlateWells - 1) :
             arg_well_id = WellIdAt(k) =>
                /\ returned.raised = "none"
                /\ returned.row_ind \in 0..7
                /\ returned.col_ind \in 0..11
                /\ returned.row_ind * 12 + returned.col_ind = k
                /\ \A j \in 0..(NumPlateWells - 1) :
                     well_id_to_position(WellIdAt(j)) = returned => j = k
        /\ arg_well_id = <<"A", "1">> =>
             (returned.row_ind = 0 /\ returned.col_ind = 0)
        /\ arg_well_id = <<"H", "1", "2">> =>
             (returned.row_ind = 7 /\ returned.col_ind = 11)

\* C18 happens: the last well of the plate, 'H12', has been mapped.
C18_LastWellMapped ==
    /\ pc = "returned"
    /\ arg_well_id = <<"H", "1", "2">>
    /\ arg_well_id = WellIdAt(NumPlateWells - 1)
    /\ returned.row_ind = 7
    /\ returned.col_ind = 11

\* how many times main() called the method
NumCalls(method) == Len(SelectSeq(qc_calls, LAMBDA c : c = method))

\* the main() call that belongs to one flag was made
ActionPerformed(flag) ==
    CASE flag = "inspect" -> NumCalls("summarize") > 0
      [] flag = "project" -> NumCalls("generate_z_projections") > 0
      [] flag = "plot" -> NumCalls("plot_counts_and_scores") > 0
      [] flag = "construct_metadata" ->
            NumCalls("construct_fov_metadata overwrite=True")
            + NumCalls("construct_fov_metadata overwrite=False") > 0
      [] flag = "overwrite" -> NumCalls("construct_fov_metadata overwrite=True") > 0
      [] flag = "run_all" ->
            /\ NumCalls("plot_counts_and_scores") > 0
            /\ NumCalls("generate_z_projections") > 0
            /\ NumCalls("tile_acquired_fovs channel_ind=0") > 0
            /\ NumCalls("tile_acquired_fovs channel_ind=1") > 0

\* C19 as stated: for every subset of the six flags, when main() has ended
\* the action of a flag has been performed exactly when that flag was given.
C19_EachFlagTogglesItsOwnAction ==
    pc = "exit" => \A flag \in action_arg_names : ActionPerformed(flag) <=> args[flag]

\* 1 when the flag was given, 0 when it was not
Given(flag) == IF args[flag] THEN 1 ELSE 0

\* C19 as amended: for every subset of the six flags main() ends, having
\* called summarize once iff --inspect; the z-projections once for
\* --project and once more for --run-all; the three plots once for --plot
\* and once more for --run-all; and construct_fov_metadata once iff
\* --construct-metadata, with overwrite as --overwrite was given.
\* --overwrite by itself has no action.
C19_CallsMadeForFlags ==
    pc = "exit" =>
        /\ NumCalls("summarize") = Given("inspect")
        /\ NumCalls("generate_z_projections") = Given("project") + Given("run_all")
        /\ \A plot \in {"plot_counts_and_scores", "tile_acquired_fovs channel_ind=0",
                        "tile_acquired_fovs channel_ind=1"} :
             NumCalls(plot) = Given("plot") + Given("run_all")
        /\ NumCalls("construct_fov_metadata overwrite=True") =
             (IF args.overwrite THEN Given("construct_metadata") ELSE 0)
        /\ NumCalls("construct_fov_metadata overwrite=False") =
             (IF args.overwrite THEN 0 ELSE Given("construct_metadata"))

\* C19 happens: main() has ended on a command line with --run-all and
\* --overwrite but neither --project nor --construct-metadata.
C19_RunAllAndOverwriteOnly ==
    /\ pc = "exit"
    /\ args.run_all /\ args.overwrite
    /\ ~args.project /\ ~args.plot /\ ~args.construct_metadata
    /\ NumCalls("generate_z_projections") = 1

\* C20: the 488 stack acquired at a position of well w uses the exposure
\* time and laser power that autoexposure computed in well w during this
\* run, never those computed in an earlier well (or none at all).
C20_StacksUseExposureOfTheirWell ==
    "stack488" \in here => exposure_used = well_here

\* C21: when the budget check reads num_fovs_acquired_in_current_well, a
\* new-well boundary of this run has set it; the read never fails.
C21_CounterSetBeforeRead ==
    /\ pc = "check_budget" => num_fovs_acquired_in_current_well # -1
    /\ error # "AttributeError"

\* a device call of the loop of run() has raised
DeviceCallRaised == pc = "raised" /\ error = "Py4JJavaError"

NumOutcome(outcome) ==
    Len(SelectSeq(FullFocusCalls, LAMBDA c : c[2] = outcome))

\* C23: whatever the three fault modes are set to and however the calls are
\* interleaved, _num_full_focus_calls never exceeds
\* afc_fails_on_first_n_calls, at most that many calls fail through the
\* warm-up branch, and the counter counts the warm-up failures only: a call
\* that fails for an always-fail well or by the failure rate leaves it as
\* it is.
C23_WarmupCounterWithinWindow ==
    /\ num_full_focus_calls <= afc_fails_on_first_n_calls
    /\ NumOutcome("warmup") <= afc_fails_on_first_n_calls
    /\ num_full_focus_calls = NumOutcome("warmup")

\* C23 happens: with the three modes switched on, calls have failed in each
\* of the three ways and the warm-up window is used up.
C23_ThreeModesInterleaved ==
    /\ afc_failure_rate = "positive"
    /\ afc_always_fail_in_wells # {}
    /\ afc_fails_on_first_n_calls >= 1
    /\ NumOutcome("always") >= 1
    /\ NumOutcome("random") >= 1
    /\ NumOutcome("warmup") = afc_fails_on_first_n_calls

\* the outcomes of the calls of one method made so far, in call order
CallsOf(method) == SelectSeq(mock_calls, LAMBDA c : c[1] = method)

\* C24: a one-shot flag fires exactly once.  A goToPosition call raises
\* exactly when it is the first one and raise_go_to_position_error_once was
\* given; with an error rate of 0 a getTaggedImage call raises exactly when
\* it is the first one and raise_get_tagged_image_error_once was given; and
\* each flag is false once its method has been called.
C24_OneShotFlagsFireOnce ==
    /\ \A k \in 1..Len(CallsOf("goToPosition")) :
         CallsOf("goToPosition")[k][2] # "ok"
           <=> (k = 1 /\ once_flags_given.go_to_position)
    /\ get_tagged_image_error_rate = "zero" =>
         \A k \in 1..Len(CallsOf("getTaggedImage")) :
            CallsOf("getTaggedImage")[k][2] # "ok"
              <=> (k = 1 /\ once_flags_given.get_tagged_image)
    /\ Len(CallsOf("goToPosition")) >= 1 => ~raise_go_to_position_error_once
    /\ Len(CallsOf("getTaggedImage")) >= 1 => ~raise_get_tagged_image_error_once

\* C24 happens: both flags were given, and each method has raised on its
\* first call and returned on its second.
C24_BothFlagsFired ==
    /\ once_flags_given.go_to_position
    /\ once_flags_given.get_tagged_image
    /\ get_tagged_image_error_rate = "zero"
    /\ CallsOf("goToPosition") = << <<"goToPosition", "once">>, <<"goToPosition", "ok">> >>
    /\ CallsOf("getTaggedImage") = << <<"getTaggedImage", "once">>, <<"getTaggedImage", "ok">> >>

\* C25: the mocked list for num_wells wells (up to the plate's 96) of
\* num_sites_per_well sites has num_wells * num_sites_per_well labels; the
\* label at index i matches the well-site pattern and is site
\* i mod num_sites_per_well of the (i div num_sites_per_well)-th well, so
\* that the sites of a well are next to each other and numbered from 0 in
\* order; and the program's new-well test is true of it exactly when i is a
\* multiple of num_sites_per_well.
C25_MockedListShape ==
    pc = "list" =>
        /\ getNumberOfPositions =
             list_kwargs.num_wells * list_kwargs.num_sites_per_well
        /\ position_index >= 0 =>
             /\ HcsMatches(position)
             /\ parse_hcs_site_label(position).well_id =
                  WellIdAt(position_index \div list_kwargs.num_sites_per_well)
             /\ parse_hcs_site_label(position).site_num =
                  position_index % list_kwargs.num_sites_per_well
             /\ new_well_flag <=>
                  position_index % list_kwargs.num_sites_per_well = 0

\* C25 happens: the last label of the list for the whole plate with 11
\* sites per well, 'H12-Site_10', has been tested and is no new well.
C25_LastSiteOfLastWell ==
    /\ pc = "list"
    /\ list_kwargs.num_wells = NumPlateWells
    /\ list_kwargs.num_sites_per_well = 11
    /\ position = <<"H", "1", "2", "-", "S", "i", "t", "e", "_", "1", "0">>
    /\ position_index = getNumberOfPositions - 1
    /\ ~new_well_flag

====
